---- MODULE Spec2Model ----
(***************************************************************************)
(* A model of zabbix-mcp: the JSON-RPC client (client.py), the user        *)
(* management layer (user_management.py), the tool handlers (tools.py)     *)
(* and the tool dispatch of the server (server.py), run against a remote   *)
(* Zabbix endpoint that answers every request with a result, an empty      *)
(* body, an error object or a transport failure.                           *)
(*                                                                         *)
(* Python values are tagged records [t, v]; a message or a display text    *)
(* is the sequence of the pieces its f-string is built from.               *)
(***************************************************************************)
EXTENDS Naturals, Sequences, FiniteSets

\* ------------------------------------------------------------------ bounds

\* A client operation starts only while fewer than MaxRequests ids were handed out.
MaxRequests == 5
\* A tool invocation starts only while fewer than MaxToolRequests ids were handed out.
MaxToolRequests == 3

\* --------------------------------------------------------- Python values

PyNone == [t |-> "none", v |-> "None"]
PyStr(s) == [t |-> "str", v |-> s]
PyList(s) == [t |-> "list", v |-> s]
PyDict(d) == [t |-> "dict", v |-> d]
PyBool(b) == [t |-> "bool", v |-> b]
\* a str whose characters matter (user names, passwords, roles): a sequence
PyChars(s) == [t |-> "chars", v |-> s]
EmptyDict == [k \in {} |-> k]

\* bool(x) / "if x" / "not x" of Python, by the type of the value
Truthy(x) ==
    CASE x.t = "none" -> FALSE
      [] x.t = "str"  -> x.v # ""
      [] x.t = "chars" -> Len(x.v) > 0
      [] x.t = "list" -> Len(x.v) > 0
      [] x.t = "dict" -> DOMAIN x.v # {}
      [] x.t = "bool" -> x.v

\* str(x) where x is a str or None, as the piece an f-string shows
Show(x) == IF x.t = "none" THEN "None" ELSE x.v

Range(s) == {s[i] : i \in DOMAIN s}

Contains(text, piece) == \E i \in DOMAIN text : text[i] = piece

\* ------------------------------------------------------- the remote side

\* the host ids the remote hands out, in the order it hands them out
HostIdSeq == <<"10084", "10085">>
HostIds == Range(HostIdSeq)
TemplateIds == {"10001", "10002", "10003"}
NoHost == [exists |-> FALSE, host |-> "", templates |-> <<>>, interfaces |-> <<>>]

\* what the remote holds before the first request
InitialHosts ==
    [h \in HostIds |->
        IF h = "10084"
        THEN [exists |-> TRUE, host |-> "web01", templates |-> <<"10001">>,
              interfaces |-> <<[interfaceid |-> "1", ip |-> "10.0.0.4", port |-> "10050",
                                available |-> "1"]>>]
        ELSE NoHost]

TemplateNames == [t \in TemplateIds |->
    CASE t = "10001" -> "Linux by Zabbix agent"
      [] t = "10002" -> "Nginx by HTTP"
      [] t = "10003" -> "ICMP Ping"]

Users == [u \in {"1"} |-> [userid |-> "1", username |-> <<"A", "d">>, surname |-> <<>>]]

\* The answer kinds of one HTTP exchange: a result, a body with neither
\* result nor error, an error object, or a failed exchange.
Variants == {"a", "b", "c"}
Responses == [kind : {"ok", "noresult", "error", "transport"}, variant : Variants]
Plain == {r \in Responses : r.variant = "a"}
Shaped == {r \in Responses : r.kind = "ok" \/ r.variant = "a"}

ErrorValue(variant) ==
    CASE variant = "a" ->
           [isdict |-> TRUE, hasdata |-> TRUE, code |-> "-32500",
            message |-> "Application error.",
            data |-> "Login name or password is incorrect."]
      [] variant = "b" ->
           [isdict |-> TRUE, hasdata |-> FALSE, code |-> "-32602",
            message |-> "Invalid params.", data |-> ""]
      [] variant = "c" ->
           [isdict |-> FALSE, hasdata |-> FALSE, code |-> "",
            message |-> "Session terminated", data |-> ""]

NoError == [isdict |-> FALSE, hasdata |-> FALSE, code |-> "", message |-> "", data |-> ""]

LoginToken(variant) ==
    CASE variant = "a" -> "tokA"
      [] variant = "b" -> "tokB"
      [] variant = "c" -> ""

FreeHosts(hosts) == {h \in HostIds : ~hosts[h].exists}
NewHostId(hosts) ==
    HostIdSeq[CHOOSE i \in DOMAIN HostIdSeq :
                /\ HostIdSeq[i] \in FreeHosts(hosts)
                /\ \A j \in 1..(i - 1) : HostIdSeq[j] \notin FreeHosts(hosts)]

HostRecord(hosts, h) ==
    [hostid |-> h, host |-> hosts[h].host, name |-> hosts[h].host, status |-> "0",
     parentTemplates |-> [i \in DOMAIN hosts[h].templates |->
                            [templateid |-> hosts[h].templates[i]]],
     interfaces |-> hosts[h].interfaces]

\* host.get: the records of the hosts the params select, in id order
HostsMatching(hosts, p) ==
    LET sel(h) ==
            /\ hosts[h].exists
            /\ ("hostids" \in DOMAIN p => p.hostids = h)
            /\ ("filter" \in DOMAIN p => p.filter.host = hosts[h].host)
        ids == SelectSeq(HostIdSeq, sel)
    IN [i \in DOMAIN ids |-> HostRecord(hosts, ids[i])]

TemplateIdSeq == <<"10001", "10002", "10003">>

TemplatesMatching(p) ==
    LET sel(t) == "filter" \in DOMAIN p => p.filter.host = TemplateNames[t]
        ids == SelectSeq(TemplateIdSeq, sel)
    IN [i \in DOMAIN ids |->
          [templateid |-> ids[i], host |-> TemplateNames[ids[i]],
           name |-> TemplateNames[ids[i]]]]

\* the remote refuses a request it cannot carry out
Refused(hosts, payload) ==
    LET p == payload.params
    IN CASE payload.method = "host.create" ->
              \/ FreeHosts(hosts) = {}
              \/ \E h \in HostIds : hosts[h].exists /\ hosts[h].host = p.host
         [] payload.method = "host.update" ->
              \/ p.hostid \notin HostIds
              \/ ~hosts[p.hostid].exists
              \/ \E i \in DOMAIN p.templates : p.templates[i].templateid \notin TemplateIds
         [] payload.method = "hostinterface.create" ->
              \/ p.hostid \notin HostIds
              \/ ~hosts[p.hostid].exists
         [] payload.method = "host.delete" ->
              \E i \in DOMAIN p : p[i] \notin HostIds \/ ~hosts[p[i]].exists
         [] OTHER -> FALSE

\* the state of the remote after it carried out a request
RemoteApply(hosts, payload) ==
    LET p == payload.params
    IN CASE payload.method = "host.create" ->
              [hosts EXCEPT ![NewHostId(hosts)] =
                  [exists |-> TRUE, host |-> p.host, templates |-> <<>>,
                   interfaces |-> <<>>]]
         [] payload.method = "host.update" ->
              \* "templates" replaces the whole list of linked templates
              [hosts EXCEPT ![p.hostid].templates =
                  [i \in DOMAIN p.templates |-> p.templates[i].templateid]]
         [] payload.method = "host.delete" ->
              [h \in HostIds |-> IF h \in Range(p) THEN NoHost ELSE hosts[h]]
         [] payload.method = "hostinterface.create" ->
              \* a new interface has not been polled yet: availability 0
              [hosts EXCEPT ![p.hostid].interfaces =
                  Append(@, [interfaceid |-> "31", ip |-> p.ip, port |-> p.port,
                             available |-> "0"])]
         [] OTHER -> hosts

\* the result field of the answer to a request the remote carried out
RemoteResult(hosts, payload, variant) ==
    LET p == payload.params
    IN CASE payload.method = "user.login" -> PyStr(LoginToken(variant))
         [] payload.method = "host.get" -> PyList(HostsMatching(hosts, p))
         [] payload.method = "template.get" -> PyList(TemplatesMatching(p))
         [] payload.method = "host.create" ->
              (CASE variant = "a" -> PyDict([hostids |-> <<NewHostId(hosts)>>])
                 [] variant = "b" -> PyList(<<NewHostId(hosts)>>)
                 [] variant = "c" -> PyDict([created |-> <<NewHostId(hosts)>>]))
         [] payload.method = "hostinterface.create" ->
              (CASE variant = "b" -> PyList(<<"31">>)
                 [] OTHER -> PyDict([interfaceids |-> <<"31">>]))
         [] payload.method = "host.update" -> PyDict([hostids |-> <<p.hostid>>])
         [] payload.method = "host.delete" -> PyDict([hostids |-> p])
         [] payload.method = "user.get" ->
              PyList(IF "userids" \in DOMAIN p /\ p.userids \in DOMAIN Users
                     THEN <<Users[p.userids]>> ELSE <<>>)
         [] payload.method = "user.create" -> PyDict([userids |-> <<"3">>])
         [] payload.method = "user.update" -> PyDict([userids |-> <<p.userid>>])
         [] payload.method = "role.get" ->
              PyList(IF "filter" \in DOMAIN p /\ p.filter.name # "Super admin role"
                     THEN <<>> ELSE <<[roleid |-> "3", name |-> "Super admin role"]>>)
         [] OTHER -> PyList(<<>>)

\* the decoded body of an answer of the given kind
Body(hosts, payload, kind, variant) ==
    [has_error |-> kind = "error",
     error |-> IF kind = "error" THEN ErrorValue(variant) ELSE NoError,
     has_result |-> kind = "ok",
     result |-> IF kind = "ok" THEN RemoteResult(hosts, payload, variant) ELSE PyNone]

\* the remote answers a request: whether the exchange failed, the decoded
\* body, and the remote afterwards
Answer(hosts, payload, kind, variant) ==
    [transport |-> kind = "transport",
     data |-> Body(hosts, payload, kind, variant),
     hosts |-> IF kind = "ok" THEN RemoteApply(hosts, payload) ELSE hosts]

\* session.post + raise_for_status + response.json against the remote
session_post(hosts, payload, resp) ==
    Answer(hosts, payload,
           IF resp.kind = "ok" /\ Refused(hosts, payload) THEN "error" ELSE resp.kind,
           resp.variant)

\* ------------------------------------------------------------- client.py

NoExc == [type |-> "", msg |-> <<>>]
Ret(ctx, v) == [ctx |-> ctx, raised |-> FALSE, exc |-> NoExc, val |-> v]
Raise(ctx, type, msg) ==
    [ctx |-> ctx, raised |-> TRUE, exc |-> [type |-> type, msg |-> msg], val |-> PyNone]

\* str(e) that shows the code only
ErrorRepr_CodeOnly(e) == <<e.code>>

\* str(e) of an error object of the remote
ErrorRepr(e) ==
    IF ~e.isdict THEN <<e.message>>
    ELSE <<"{'code': ", e.code, ", 'message': '", e.message, "'">>
         \o (IF e.hasdata THEN <<", 'data': '", e.data, "'">> ELSE <<>>) \o <<"}">>

get_request_id_NoIncrement(rid) == [rid |-> rid, id |-> rid + 1]

\* ZabbixClient._get_request_id: the counter after the call and the id returned
get_request_id(rid) == [rid |-> rid + 1, id |-> rid + 1]

\* the client after it took a request id
TakeId(ctx, id) == [ctx EXCEPT !.rid = id.rid]

\* the envelope was posted and answered: it is logged with its answer
Posted(ctx, payload, x) ==
    [ctx |-> [ctx EXCEPT !.ids = Append(@, payload.id),
                         !.calls = Append(@, payload),
                         !.replies = Append(@, [transport |-> x.transport,
                                                data |-> x.data]),
                         !.hosts = x.hosts],
     transport |-> x.transport,
     data |-> x.data]

\* self.session.post(self.api_url, json=payload, timeout=10) and the checks on
\* the response
Post(ctx, payload, resp) == Posted(ctx, payload, session_post(ctx.hosts, payload, resp))

\* a login envelope that carries an auth field like every other envelope
login_payload_WithAuth(id) ==
    [jsonrpc |-> "2.0", method |-> "user.login",
     params |-> [username |-> "Admin", password |-> "zabbix"], auth |-> "", id |-> id]

\* authenticate: the login envelope
login_payload(id) ==
    [jsonrpc |-> "2.0", method |-> "user.login",
     params |-> [username |-> "Admin", password |-> "zabbix"], id |-> id]

\* an authenticate that forgets the token it holds when the login fails
authenticate_result_DropsToken(x) ==
    IF x.transport \/ x.data.has_error \/ ~x.data.has_result
    THEN Raise([x.ctx EXCEPT !.token = PyNone], "ZabbixAPIError", <<"Authentication failed">>)
    ELSE Ret([x.ctx EXCEPT !.token = x.data.result], PyBool(TRUE))

\* an authenticate that keeps the token it already holds
authenticate_result_KeepsFirstToken(x) ==
    IF x.transport \/ x.data.has_error \/ ~x.data.has_result
    THEN Raise(x.ctx, "ZabbixAPIError", <<"Authentication failed">>)
    ELSE Ret([x.ctx EXCEPT !.token = IF Truthy(@) THEN @ ELSE x.data.result], PyBool(TRUE))

\* authenticate: what becomes of the answer to the login
authenticate_result(x) ==
    IF x.transport
    THEN Raise(x.ctx, "ZabbixAPIError", <<"Connection error: ", "RequestException">>)
    ELSE IF x.data.has_error
    THEN Raise(x.ctx, "ZabbixAPIError",
               <<"Authentication failed: ">> \o ErrorRepr(x.data.error))
    ELSE IF ~x.data.has_result
    THEN Raise(x.ctx, "ZabbixAPIError", <<"No token in response">>)
    ELSE Ret([x.ctx EXCEPT !.token = x.data.result], PyBool(TRUE))

authenticate_with(ctx, id, resp) ==
    authenticate_result(Post(TakeId(ctx, id), login_payload(id.id), resp))

\* ZabbixClient.authenticate
authenticate(ctx, resp) == authenticate_with(ctx, get_request_id(ctx.rid), resp)

\* call: the envelope
call_payload(token, method, params, id) ==
    [jsonrpc |-> "2.0", method |-> method,
     params |-> IF params.t = "none" THEN EmptyDict ELSE params.v,
     auth |-> token.v, id |-> id]

\* call: the text of the error object, error_msg
error_msg(e) ==
    IF e.isdict THEN (IF e.hasdata THEN <<e.data>> ELSE ErrorRepr(e)) ELSE <<e.message>>

\* a call that returns None when the body has no result
call_result_NoneWhenAbsent(x) ==
    IF x.transport
    THEN Raise(x.ctx, "ZabbixAPIError", <<"Connection error: ", "RequestException">>)
    ELSE IF x.data.has_error
    THEN Raise(x.ctx, "ZabbixAPIError", <<"API error: ">> \o error_msg(x.data.error))
    ELSE Ret(x.ctx, IF x.data.has_result THEN x.data.result ELSE PyNone)

\* call: what becomes of the answer to the request
call_result(x) ==
    IF x.transport
    THEN Raise(x.ctx, "ZabbixAPIError", <<"Connection error: ", "RequestException">>)
    ELSE IF x.data.has_error
    THEN Raise(x.ctx, "ZabbixAPIError", <<"API error: ">> \o error_msg(x.data.error))
    ELSE Ret(x.ctx, IF x.data.has_result THEN x.data.result ELSE PyDict(EmptyDict))

call_with(ctx, method, params, id, resp) ==
    call_result(Post(TakeId(ctx, id), call_payload(ctx.token, method, params, id.id), resp))

\* ZabbixClient.call past the token check: build the envelope, post it and
\* map the answer
call_send(ctx, method, params, resp) ==
    call_with(ctx, method, params, get_request_id(ctx.rid), resp)

NotAuthenticated == <<"Not authenticated. Call authenticate() first.">>

call_NoTokenCheck(ctx, method, params, resp) == call_send(ctx, method, params, resp)

\* a call that takes its request id before it tests the token
call_TakesIdFirst(ctx, method, params, resp) ==
    IF ~Truthy(ctx.token)
    THEN Raise(TakeId(ctx, get_request_id(ctx.rid)), "ZabbixAPIError", NotAuthenticated)
    ELSE call_send(ctx, method, params, resp)

\* ZabbixClient.call
call(ctx, method, params, resp) ==
    IF ~Truthy(ctx.token)
    THEN Raise(ctx, "ZabbixAPIError", NotAuthenticated)
    ELSE call_send(ctx, method, params, resp)

\* a params.update that lets the defaults win
update_DefaultsWin(params, kwargs) ==
    [k \in DOMAIN params \cup DOMAIN kwargs |->
        IF k \in DOMAIN params THEN params[k] ELSE kwargs[k]]

\* params.update(kwargs)
update(params, kwargs) ==
    [k \in DOMAIN params \cup DOMAIN kwargs |->
        IF k \in DOMAIN kwargs THEN kwargs[k] ELSE params[k]]

\* the params each accessor starts from
get_hosts_params == [output |-> "extend", selectInterfaces |-> "extend"]
get_triggers_params == [output |-> "extend", selectHosts |-> "extend"]
get_events_params(limit) ==
    [output |-> "extend", limit |-> limit, sortfield |-> "clock", selectHosts |-> "extend"]
get_problems_params == [output |-> "extend", recent |-> TRUE]
get_items_params(hostid) ==
    IF Truthy(hostid)
    THEN [output |-> "extend", selectHosts |-> "extend", selectValueMaps |-> "extend",
          hostids |-> hostid.v]
    ELSE [output |-> "extend", selectHosts |-> "extend", selectValueMaps |-> "extend"]
get_history_params(itemid, limit) ==
    [output |-> "extend", itemids |-> itemid, limit |-> limit, sortfield |-> "clock"]
get_dashboards_params == [output |-> "extend"]
get_groups_params == [output |-> "extend"]
get_templates_params == [output |-> "extend"]

\* ZabbixClient.get_hosts(**kwargs)
get_hosts(ctx, kwargs, resp) ==
    call(ctx, "host.get", PyDict(update(get_hosts_params, kwargs)), resp)

\* ZabbixClient.get_triggers(**kwargs)
get_triggers(ctx, kwargs, resp) ==
    call(ctx, "trigger.get", PyDict(update(get_triggers_params, kwargs)), resp)

\* ZabbixClient.get_events(limit=100, **kwargs)
get_events(ctx, limit, kwargs, resp) ==
    call(ctx, "event.get", PyDict(update(get_events_params(limit), kwargs)), resp)

\* ZabbixClient.get_problems(**kwargs)
get_problems(ctx, kwargs, resp) ==
    call(ctx, "problem.get", PyDict(update(get_problems_params, kwargs)), resp)

\* ZabbixClient.get_items(hostid=None, **kwargs)
get_items(ctx, hostid, kwargs, resp) ==
    call(ctx, "item.get", PyDict(update(get_items_params(hostid), kwargs)), resp)

\* ZabbixClient.get_history(itemid, limit=100, **kwargs)
get_history(ctx, itemid, limit, kwargs, resp) ==
    call(ctx, "history.get", PyDict(update(get_history_params(itemid, limit), kwargs)), resp)

\* ZabbixClient.get_dashboards(**kwargs)
get_dashboards(ctx, kwargs, resp) ==
    call(ctx, "dashboard.get", PyDict(update(get_dashboards_params, kwargs)), resp)

\* ZabbixClient.get_groups(**kwargs)
get_groups(ctx, kwargs, resp) ==
    call(ctx, "hostgroup.get", PyDict(update(get_groups_params, kwargs)), resp)

\* ZabbixClient.get_templates(**kwargs)
get_templates(ctx, kwargs, resp) ==
    call(ctx, "template.get", PyDict(update(get_templates_params, kwargs)), resp)

\* a lookup that raises when nothing matches
first_or_none_RaisesOnEmpty(o) ==
    IF o.raised THEN o
    ELSE IF Truthy(o.val) THEN Ret(o.ctx, PyDict(o.val.v[1]))
    ELSE Raise(o.ctx, "ZabbixAPIError", <<"not found">>)

\* "xs[0] if xs else None" for the result of a get call
first_or_none(o) ==
    IF o.raised THEN o
    ELSE Ret(o.ctx, IF Truthy(o.val) THEN PyDict(o.val.v[1]) ELSE PyNone)

\* ZabbixClient.get_host_by_name
get_host_by_name(ctx, hostname, resp) ==
    first_or_none(call(ctx, "host.get",
                       PyDict([output |-> "extend", filter |-> [host |-> hostname],
                               selectInterfaces |-> "extend",
                               selectParentTemplates |-> "extend"]), resp))

\* ZabbixClient.get_template_by_name
get_template_by_name(ctx, template_name, resp) ==
    first_or_none(call(ctx, "template.get",
                       PyDict([output |-> "extend", filter |-> [host |-> template_name]]),
                       resp))

\* link_template: the {"templateid": ...} entries of the host's parentTemplates
existing_templates(host) ==
    [i \in DOMAIN host.parentTemplates |->
        [templateid |-> host.parentTemplates[i].templateid]]

already_linked_Never(templateid, existing) == FALSE

\* link_template: "templateid in template_ids"
already_linked(templateid, existing) ==
    \E i \in DOMAIN existing : existing[i].templateid = templateid

merged_templates_OnlyNew(existing, templateid) == <<[templateid |-> templateid]>>

\* link_template: the templates field of the host.update it sends
merged_templates(existing, templateid) ==
    Append(existing, [templateid |-> templateid])

\* link_template: "return bool(result)", or False when host.update raised
link_template_updated(o2) ==
    IF o2.raised THEN Ret(o2.ctx, PyBool(FALSE)) ELSE Ret(o2.ctx, PyBool(Truthy(o2.val)))

\* link_template from the check "if templateid in template_ids" on
link_template_merge(ctx, existing, hostid, templateid, r2) ==
    IF already_linked(templateid, existing)
    THEN Ret(ctx, PyBool(TRUE))
    ELSE link_template_updated(
             call(ctx, "host.update",
                  PyDict([hostid |-> hostid,
                          templates |-> merged_templates(existing, templateid)]), r2))

\* link_template after its host.get; every ZabbixAPIError, the one it raises
\* for a host that is not found included, ends in "return False"
link_template_got(o1, hostid, templateid, r2) ==
    IF o1.raised \/ ~Truthy(o1.val)
    THEN Ret(o1.ctx, PyBool(FALSE))
    ELSE link_template_merge(o1.ctx, existing_templates(o1.val.v[1]), hostid, templateid, r2)

\* ZabbixClient.link_template
link_template(ctx, hostid, templateid, r1, r2) ==
    link_template_got(call(ctx, "host.get",
                           PyDict([output |-> "extend", hostids |-> hostid,
                                   selectParentTemplates |-> "extend"]), r1),
                      hostid, templateid, r2)

\* link_template_by_names after the template lookup
link_by_names_template(host, o2, template_name, r3, r4) ==
    IF o2.raised THEN o2
    ELSE IF ~Truthy(o2.val)
    THEN Raise(o2.ctx, "ZabbixAPIError", <<"Template '", template_name, "' not found">>)
    ELSE link_template(o2.ctx, host.v.hostid, o2.val.v.templateid, r3, r4)

\* a link_template_by_names that looks the template up before it reports
\* the missing host
link_by_names_host_LooksUpTemplate(o1, hostname, template_name, r2, r3, r4) ==
    IF o1.raised THEN o1
    ELSE IF ~Truthy(o1.val)
    THEN Raise(get_template_by_name(o1.ctx, template_name, r2).ctx, "ZabbixAPIError",
               <<"Host '", hostname, "' not found">>)
    ELSE link_by_names_template(o1.val, get_template_by_name(o1.ctx, template_name, r2),
                                template_name, r3, r4)

\* link_template_by_names after the host lookup
link_by_names_host(o1, hostname, template_name, r2, r3, r4) ==
    IF o1.raised THEN o1
    ELSE IF ~Truthy(o1.val)
    THEN Raise(o1.ctx, "ZabbixAPIError", <<"Host '", hostname, "' not found">>)
    ELSE link_by_names_template(o1.val, get_template_by_name(o1.ctx, template_name, r2),
                                template_name, r3, r4)

\* ZabbixClient.link_template_by_names
link_template_by_names(ctx, hostname, template_name, r1, r2, r3, r4) ==
    link_by_names_host(get_host_by_name(ctx, hostname, r1), hostname, template_name,
                       r2, r3, r4)

\* ---------------------------------------------------- user_management.py

\* str.lower() on the letters the user names and passwords are written in
LowerChar(c) ==
    CASE c = "A" -> "a" [] c = "B" -> "b" [] c = "D" -> "d" [] c = "I" -> "i"
      [] c = "M" -> "m" [] c = "N" -> "n" [] c = "O" -> "o" [] c = "S" -> "s"
      [] OTHER -> c
lower(s) == [i \in DOMAIN s |-> LowerChar(s[i])]

\* "a in b" of two str
IsSubstring(a, b) ==
    \E k \in 0..(Len(b) - Len(a)) : SubSeq(b, k + 1, k + Len(a)) = a

\* str.isdigit()
Digits == {"0", "1", "2", "3", "4", "5", "6", "7", "8", "9"}
isdigit(s) == Len(s) > 0 /\ \A i \in DOMAIN s : s[i] \in Digits

password_contains_CaseSensitive(x, password) == IsSubstring(x, password)

\* create_user / update_user: "x.lower() in password.lower()"
password_contains(x, password) == IsSubstring(lower(x), lower(password))

api_call_ViaCall(ctx, method, params, resp) == call(ctx, method, params, resp)

\* self.client.api_call(...): ZabbixClient defines no api_call, so the
\* attribute lookup raises AttributeError before anything is sent
api_call(ctx, method, params, resp) ==
    Raise(ctx, "AttributeError", <<"'ZabbixClient' object has no attribute 'api_call'">>)

\* _resolve_role_id after its role.get; the bare except swallows every error
resolve_role_id_got(o) ==
    IF o.raised THEN Ret(o.ctx, PyNone)
    ELSE IF Truthy(o.val) THEN Ret(o.ctx, PyStr(o.val.v[1].roleid))
    ELSE Ret(o.ctx, PyNone)

\* UserManagement._resolve_role_id
resolve_role_id(ctx, role, resp) ==
    IF isdigit(role.v) THEN Ret(ctx, role)
    ELSE resolve_role_id_got(
             api_call(ctx, "role.get",
                      PyDict([output |-> <<"roleid", "name">>,
                              filter |-> [name |-> role.v]]), resp))

\* the dict create_user returns
UserResult(success, userid, message, validation_errors) ==
    [success |-> success, userid |-> userid, message |-> message,
     validation_errors |-> validation_errors]

\* create_user: the list of violated password rules
validation_errors(username, password, surname) ==
    (IF password_contains(username.v, password.v)
     THEN <<"Password cannot contain username">> ELSE <<>>)
    \o (IF Truthy(surname) /\ password_contains(surname.v, password.v)
        THEN <<"Password cannot contain surname">> ELSE <<>>)

\* create_user: the params of user.create
user_create_params(username, password, role_id, email, name, surname) ==
    [k \in {"username", "passwd", "roleid"}
           \cup (IF Truthy(email) THEN {"usrgrps"} ELSE {})
           \cup (IF Truthy(name) THEN {"name"} ELSE {})
           \cup (IF Truthy(surname) THEN {"surname"} ELSE {}) |->
        CASE k = "username" -> username.v
          [] k = "passwd" -> password.v
          [] k = "roleid" -> role_id.v
          [] k = "usrgrps" -> <<>>
          [] k = "name" -> name.v
          [] k = "surname" -> surname.v]

\* create_user after its user.create; "except Exception" turns an error
\* into a dict
create_user_created(o2, username) ==
    IF o2.raised
    THEN Ret(o2.ctx, PyDict(UserResult(FALSE, PyNone,
                                       <<"Error creating user: ">> \o o2.exc.msg,
                                       o2.exc.msg)))
    ELSE IF Truthy(o2.val) /\ o2.val.t = "dict" /\ "userids" \in DOMAIN o2.val.v
    THEN Ret(o2.ctx, PyDict(UserResult(TRUE, PyStr(o2.val.v.userids[1]),
                                       <<"User created successfully: ">> \o username.v,
                                       <<>>)))
    ELSE Ret(o2.ctx, PyDict(UserResult(FALSE, PyNone, <<"Failed to create user">>,
                                       <<"API returned no user ID">>)))

\* create_user after the role was resolved
create_user_resolved(o1, username, password, role, email, name, surname, r2) ==
    IF ~Truthy(o1.val)
    THEN Ret(o1.ctx, PyDict(UserResult(FALSE, PyNone, <<"Role not found: ">> \o role.v,
                                       <<"Unknown role: ">> \o role.v)))
    ELSE create_user_created(
             api_call(o1.ctx, "user.create",
                      PyDict(user_create_params(username, password, o1.val,
                                                email, name, surname)), r2),
             username)

\* create_user after the password rules were checked
create_user_validated(ctx, errors, username, password, role, email, name, surname, r1, r2) ==
    IF Len(errors) > 0
    THEN Ret(ctx, PyDict(UserResult(FALSE, PyNone, <<"Password validation failed">>, errors)))
    ELSE create_user_resolved(resolve_role_id(ctx, role, r1), username, password, role,
                              email, name, surname, r2)

\* UserManagement.create_user; None has no lower()
create_user(ctx, username, password, role, email, name, surname, r1, r2) ==
    IF username.t = "none" \/ password.t = "none"
    THEN Raise(ctx, "AttributeError", <<"'NoneType' object has no attribute 'lower'">>)
    ELSE create_user_validated(ctx, validation_errors(username, password, surname),
                               username, password, role, email, name, surname, r1, r2)

\* the dict update_user returns
UpdateResult(success, message, changes_made) ==
    [success |-> success, message |-> message, changes_made |-> changes_made]

\* update_user: the mutable fields supplied, in the order the code adds them
update_changes(password, roleid, email, name, surname) ==
    (IF Truthy(password) THEN <<"password">> ELSE <<>>)
    \o (IF Truthy(roleid) THEN <<"role">> ELSE <<>>)
    \o (IF Truthy(email) THEN <<"email">> ELSE <<>>)
    \o (IF Truthy(name) THEN <<"name">> ELSE <<>>)
    \o (IF Truthy(surname) THEN <<"surname">> ELSE <<>>)

\* update_user: the params of user.update
user_update_params(userid, password, roleid, current_password, email, name, surname) ==
    [k \in {"userid"}
           \cup (IF Truthy(password) THEN {"passwd", "current_passwd"} ELSE {})
           \cup (IF Truthy(roleid) THEN {"roleid"} ELSE {})
           \cup (IF Truthy(email) THEN {"email"} ELSE {})
           \cup (IF Truthy(name) THEN {"name"} ELSE {})
           \cup (IF Truthy(surname) THEN {"surname"} ELSE {}) |->
        CASE k = "userid" -> Show(userid)
          [] k = "passwd" -> password.v
          [] k = "current_passwd" -> current_password.v
          [] k = "roleid" -> roleid.v
          [] k = "email" -> email.v
          [] k = "name" -> name.v
          [] k = "surname" -> surname.v]

\* update_user after its user.update
update_user_updated(o2, changes) ==
    IF o2.raised
    THEN Ret(o2.ctx, PyDict(UpdateResult(FALSE, <<"Error updating user: ">> \o o2.exc.msg,
                                         <<>>)))
    ELSE IF Truthy(o2.val) /\ o2.val.t = "dict" /\ "userids" \in DOMAIN o2.val.v
    THEN Ret(o2.ctx, PyDict(UpdateResult(TRUE, <<"User updated successfully">>, changes)))
    ELSE Ret(o2.ctx, PyDict(UpdateResult(FALSE, <<"Failed to update user">>, <<>>)))

\* update_user once the user was fetched: the checks on the new password,
\* then the update
update_user_checked(ctx, current, params, changes, password, current_password, r2) ==
    IF Truthy(password) /\ ~Truthy(current_password)
    THEN Ret(ctx, PyDict(UpdateResult(FALSE,
               <<"current_password required when changing password">>, <<>>)))
    ELSE IF /\ Truthy(password)
            /\ Len(current.username) > 0
            /\ password_contains(current.username, password.v)
    THEN Ret(ctx, PyDict(UpdateResult(FALSE, <<"New password cannot contain username">>,
                                      <<>>)))
    ELSE IF /\ Truthy(password)
            /\ Len(current.surname) > 0
            /\ password_contains(current.surname, password.v)
    THEN Ret(ctx, PyDict(UpdateResult(FALSE, <<"New password cannot contain surname">>,
                                      <<>>)))
    ELSE IF Cardinality(DOMAIN params) = 1
    THEN Ret(ctx, PyDict(UpdateResult(TRUE, <<"No changes requested">>, <<>>)))
    ELSE update_user_updated(api_call(ctx, "user.update", PyDict(params), r2), changes)

\* update_user after its user.get; "except Exception" turns an error into a dict
update_user_got(o1, userid, params, changes, password, current_password, r2) ==
    IF o1.raised
    THEN Ret(o1.ctx, PyDict(UpdateResult(FALSE, <<"Error updating user: ">> \o o1.exc.msg,
                                         <<>>)))
    ELSE IF ~Truthy(o1.val)
    THEN Ret(o1.ctx, PyDict(UpdateResult(FALSE, <<"User not found: ", Show(userid)>>, <<>>)))
    ELSE update_user_checked(o1.ctx, o1.val.v[1], params, changes, password,
                             current_password, r2)

\* UserManagement.update_user
update_user(ctx, userid, password, roleid, current_password, email, name, surname, r1, r2) ==
    update_user_got(
        api_call(ctx, "user.get",
                 PyDict([output |-> <<"userid", "username", "surname">>,
                         userids |-> Show(userid)]), r1),
        userid,
        user_update_params(userid, password, roleid, current_password, email, name, surname),
        update_changes(password, roleid, email, name, surname),
        password, current_password, r2)

\* availability_map.get(str(primary_available), "unknown")
availability_map(primary_available) ==
    CASE primary_available = 0 -> "unknown"
      [] primary_available = 1 -> "available"
      [] primary_available = 2 -> "checking"
      [] primary_available = 3 -> "unavailable"
      [] OTHER -> "unknown"

\* check_host_interface_availability after its host.get
check_availability_got(o, hostid) ==
    LET int(code) == CHOOSE n \in 0..3 : <<"0", "1", "2", "3">>[n + 1] = code
        unknown(error) == [hostid |-> hostid, status |-> "unknown", available |-> 0,
                           interfaces |-> <<>>, error |-> error]
    IN IF o.raised THEN Ret(o.ctx, PyDict(unknown(o.exc.msg)))
       ELSE IF ~Truthy(o.val) THEN Ret(o.ctx, PyDict(unknown(<<"Host not found">>)))
       ELSE IF o.val.v[1].interfaces = <<>>
       THEN Ret(o.ctx, PyDict([hostid |-> hostid, host |-> o.val.v[1].host,
                               status |-> "unknown", available |-> 0,
                               interfaces |-> <<>>]))
       ELSE Ret(o.ctx, PyDict([hostid |-> hostid, host |-> o.val.v[1].host,
                               status |-> availability_map(
                                              int(o.val.v[1].interfaces[1].available)),
                               available |-> int(o.val.v[1].interfaces[1].available),
                               interfaces |-> o.val.v[1].interfaces]))

\* UserManagement.check_host_interface_availability
check_host_interface_availability(ctx, hostid, resp) ==
    check_availability_got(
        api_call(ctx, "host.get",
                 PyDict([output |-> <<"hostid", "host", "status">>,
                         selectInterfaces |-> <<"interfaceid", "ip", "port", "available">>,
                         hostids |-> Show(hostid)]), resp),
        hostid)

\* ---------------------------------------------------------------- tools.py

\* args.get(key, default)
Get(args, key, default) == IF key \in DOMAIN args THEN args[key] ELSE default

\* the str a handler returns
Text(ctx, pieces) == Ret(ctx, [t |-> "text", v |-> pieces])

\* handle_get_hosts after client.get_hosts(); the emoji of the texts are
\* written as words
get_hosts_text(o) ==
    IF o.raised THEN Text(o.ctx, <<"Error: ">> \o o.exc.msg)
    ELSE IF ~Truthy(o.val) THEN Text(o.ctx, <<"No hosts found">>)
    ELSE Text(o.ctx, <<"Found ", "n", " hosts:">>
                     \o [i \in DOMAIN o.val.v |-> o.val.v[i].name])

\* handle_get_hosts
handle_get_hosts(ctx, args, r1) == get_hosts_text(get_hosts(ctx, EmptyDict, r1))

\* handle_link_template after client.link_template_by_names(...)
link_template_text(o, hostname, template_name) ==
    IF o.raised THEN Text(o.ctx, <<"(cross) Error: ">> \o o.exc.msg)
    ELSE IF Truthy(o.val)
    THEN Text(o.ctx, <<"(check) Successfully linked template '", template_name.v,
                       "' to host '", hostname.v, "'">>)
    ELSE Text(o.ctx, <<"(cross) Failed to link template '", template_name.v,
                       "' to host '", hostname.v, "'">>)

link_template_named(ctx, hostname, template_name, r1, r2, r3, r4) ==
    IF ~Truthy(hostname) \/ ~Truthy(template_name)
    THEN Text(ctx, <<"Error: hostname and template_name are required">>)
    ELSE link_template_text(
             link_template_by_names(ctx, hostname.v, template_name.v, r1, r2, r3, r4),
             hostname, template_name)

\* handle_link_template
handle_link_template(ctx, args, r1, r2, r3, r4) ==
    link_template_named(ctx, Get(args, "hostname", PyNone),
                        Get(args, "template_name", PyNone), r1, r2, r3, r4)

\* the default of the role argument of create_user
DefaultRole ==
    PyChars(<<"S", "u", "p", "e", "r", " ", "a", "d", "m", "i", "n", " ", "r", "o", "l", "e">>)

\* handle_create_user after um.create_user(...)
create_user_text(o, username) ==
    IF o.raised THEN Text(o.ctx, <<"Error: ">> \o o.exc.msg)
    ELSE IF o.val.v.success
    THEN Text(o.ctx, <<"(check) User created successfully\nUser ID: ",
                       Show(o.val.v.userid), "\nUsername: ">>
                     \o (IF username.t = "none" THEN <<"None">> ELSE username.v))
    ELSE Text(o.ctx, <<"(cross) Failed to create user\n">> \o o.val.v.message
                     \o <<"\n">> \o o.val.v.validation_errors)

\* handle_create_user: um.create_user(username=args.get("username"), ...)
um_create_user(ctx, args, r1, r2) ==
    create_user(ctx, Get(args, "username", PyNone), Get(args, "password", PyNone),
                Get(args, "role", DefaultRole), Get(args, "email", PyNone),
                Get(args, "name", PyNone), Get(args, "surname", PyNone), r1, r2)

\* handle_create_user
handle_create_user(ctx, args, r1, r2) ==
    create_user_text(um_create_user(ctx, args, r1, r2), Get(args, "username", PyNone))

\* handle_update_user after um.update_user(...)
update_user_text(o) ==
    IF o.raised THEN Text(o.ctx, <<"Error: ">> \o o.exc.msg)
    ELSE IF o.val.v.success
    THEN Text(o.ctx, <<"(check) User updated successfully\nChanges: ">>
                     \o o.val.v.changes_made)
    ELSE Text(o.ctx, <<"(cross) ">> \o o.val.v.message)

\* handle_update_user: um.update_user(userid=args.get("userid"), ...)
um_update_user(ctx, args, r1, r2) ==
    update_user(ctx, Get(args, "userid", PyNone), Get(args, "password", PyNone),
                Get(args, "roleid", PyNone), Get(args, "current_password", PyNone),
                Get(args, "email", PyNone), Get(args, "name", PyNone),
                Get(args, "surname", PyNone), r1, r2)

\* handle_update_user
handle_update_user(ctx, args, r1, r2) == update_user_text(um_update_user(ctx, args, r1, r2))

\* handle_check_host_interface_availability: one line for each interface
RECURSIVE interface_lines(_)
interface_lines(interfaces) ==
    IF interfaces = <<>> THEN <<>>
    ELSE <<"  - ", Head(interfaces).ip, ":", Head(interfaces).port, "\n">>
         \o interface_lines(Tail(interfaces))

\* handle_check_host_interface_availability: the text for a result
availability_text(o) ==
    LET result == o.val.v
        status_emoji == CASE result.status = "available" -> "(check)"
                          [] result.status = "checking" -> "(cycle)"
                          [] result.status = "unavailable" -> "(cross)"
                          [] OTHER -> "(question)"
        upper == CASE result.status = "available" -> "AVAILABLE"
                   [] result.status = "checking" -> "CHECKING"
                   [] result.status = "unavailable" -> "UNAVAILABLE"
                   [] OTHER -> "UNKNOWN"
    IN IF o.raised THEN Text(o.ctx, <<"Error: ">> \o o.exc.msg)
       ELSE Text(o.ctx,
                 <<status_emoji, " Host Interface Status\n", "Host: ",
                   IF "host" \in DOMAIN result THEN result.host ELSE "Unknown", "\n",
                   "Status: ", upper, "\n">>
                 \o (IF result.interfaces # <<>>
                     THEN <<"Interfaces:\n">> \o interface_lines(result.interfaces)
                     ELSE <<>>)
                 \o (IF "error" \in DOMAIN result /\ result.error # <<>>
                     THEN <<"Error: ">> \o result.error ELSE <<>>))

\* handle_check_host_interface_availability
handle_check_host_interface_availability(ctx, args, r1) ==
    availability_text(check_host_interface_availability(ctx, Get(args, "hostid", PyNone), r1))

\* handle_create_host: "r[0] if isinstance(r, list) else r.get(key, [None])[0]"
created_id(result, key) ==
    IF result.t = "list" THEN PyStr(result.v[1])
    ELSE IF key \in DOMAIN result.v THEN PyStr(result.v[key][1])
    ELSE PyNone

\* handle_create_host: the params of host.create
host_params(hostname, display_name, group_id) ==
    [host |-> hostname.v, name |-> display_name.v, groups |-> <<[groupid |-> group_id.v]>>]

interface_params_StaleHost(hostid, ip_address, port) ==
    [hostid |-> "10084", type |-> 1, main |-> 1, useip |-> 1,
     ip |-> ip_address.v, dns |-> "", port |-> port.v]

\* handle_create_host: the params of hostinterface.create
interface_params(hostid, ip_address, port) ==
    [hostid |-> hostid.v, type |-> 1, main |-> 1, useip |-> 1,
     ip |-> ip_address.v, dns |-> "", port |-> port.v]

\* handle_create_host: the params of host.update
update_params(hostid, template_id) ==
    [hostid |-> hostid.v, templates |-> <<[templateid |-> template_id.v]>>]

\* handle_create_host: the text of a run in which every step went through
created_text(hostname, display_name, ip_address, port, hostid, interfaceid, template_id) ==
    <<"(check) Host Created Successfully!", "Hostname: ", hostname.v,
      "Display: ", display_name.v, "IP: ", ip_address.v, ":", port.v,
      "Host ID: ", hostid.v, "Interface ID: ", Show(interfaceid),
      "Template: ", "Linked (", template_id.v, ")",
      "Next: Wait 30-60 seconds for agent to start reporting metrics.">>

\* handle_create_host: what "except Exception" returns
create_host_error(ctx, exc) == Text(ctx, <<"(cross) Error: ">> \o exc.msg)

\* the arguments of create_host with the defaults filled in
create_host_args(args) ==
    [hostname |-> Get(args, "hostname", PyNone),
     display_name |-> Get(args, "display_name", PyNone),
     ip_address |-> Get(args, "ip_address", PyNone),
     port |-> Get(args, "port", PyStr("10050")),
     group_id |-> Get(args, "group_id", PyStr("2")),
     template_id |-> Get(args, "template_id", PyStr("10001"))]

\* handle_create_host: the text of a run in which every step went through
created(ctx, a, hostid, interfaceid) ==
    Text(ctx, created_text(a.hostname, a.display_name, a.ip_address, a.port,
                           hostid, interfaceid, a.template_id))

\* handle_create_host after the host.update of step 3
create_host_linked(o3, a, hostid, interfaceid) ==
    IF o3.raised THEN create_host_error(o3.ctx, o3.exc)
    ELSE IF ~Truthy(o3.val)
    THEN Text(o3.ctx, <<"(warning) Host created (ID: ", hostid.v,
                        ") but template linking failed">>)
    ELSE created(o3.ctx, a, hostid, interfaceid)

\* handle_create_host, Step 3: Link template
create_host_step3(ctx, a, hostid, interfaceid, r3) ==
    IF ~Truthy(a.template_id)
    THEN created(ctx, a, hostid, interfaceid)
    ELSE create_host_linked(
             call(ctx, "host.update", PyDict(update_params(hostid, a.template_id)), r3),
             a, hostid, interfaceid)

\* a handler that deletes the host again when step 2 does not go through
create_host_interfaced_Rollback(o2, a, hostid, r3) ==
    IF o2.raised \/ ~Truthy(o2.val)
    THEN Text(call(o2.ctx, "host.delete", PyList(<<hostid.v>>), r3).ctx,
              <<"(cross) Host creation rolled back">>)
    ELSE create_host_step3(o2.ctx, a, hostid, created_id(o2.val, "interfaceids"), r3)

\* handle_create_host after the hostinterface.create of step 2
create_host_interfaced(o2, a, hostid, r3) ==
    IF o2.raised THEN create_host_error(o2.ctx, o2.exc)
    ELSE IF ~Truthy(o2.val)
    THEN Text(o2.ctx, <<"(warning) Host created (ID: ", hostid.v,
                        ") but interface creation failed">>)
    ELSE create_host_step3(o2.ctx, a, hostid, created_id(o2.val, "interfaceids"), r3)

\* handle_create_host, Step 2: Add interface
create_host_step2(ctx, a, hostid, r2, r3) ==
    IF ~Truthy(hostid)
    THEN Text(ctx, <<"(cross) Failed to get hostid from creation response">>)
    ELSE create_host_interfaced(
             call(ctx, "hostinterface.create",
                  PyDict(interface_params(hostid, a.ip_address, a.port)), r2),
             a, hostid, r3)

\* handle_create_host after the host.create of step 1
create_host_created(o1, a, r2, r3) ==
    IF o1.raised THEN create_host_error(o1.ctx, o1.exc)
    ELSE IF ~Truthy(o1.val)
    THEN Text(o1.ctx, <<"(cross) Failed to create host '", a.hostname.v, "'">>)
    ELSE create_host_step2(o1.ctx, a, created_id(o1.val, "hostids"), r2, r3)

\* handle_create_host, Step 1: Create host
create_host_step1(ctx, a, r1, r2, r3) ==
    IF ~(Truthy(a.hostname) /\ Truthy(a.display_name) /\ Truthy(a.ip_address))
    THEN Text(ctx, <<"(cross) Error: hostname, display_name, and ip_address are required">>)
    ELSE create_host_created(
             call(ctx, "host.create",
                  PyDict(host_params(a.hostname, a.display_name, a.group_id)), r1),
             a, r2, r3)

\* handle_create_host
handle_create_host(ctx, args, r1, r2, r3) ==
    create_host_step1(ctx, create_host_args(args), r1, r2, r3)

\* TOOL_HANDLERS: the names get_tool_handler finds a handler for
TOOL_HANDLERS ==
    {"get_hosts", "link_template", "create_user", "update_user", "create_host",
     "check_host_interface_availability"}

\* TOOL_HANDLERS[name](client, arguments)
handler(name, ctx, args, rs) ==
    CASE name = "get_hosts" -> handle_get_hosts(ctx, args, rs[1])
      [] name = "link_template" -> handle_link_template(ctx, args, rs[1], rs[2], rs[3], rs[4])
      [] name = "create_user" -> handle_create_user(ctx, args, rs[1], rs[2])
      [] name = "update_user" -> handle_update_user(ctx, args, rs[1], rs[2])
      [] name = "create_host" -> handle_create_host(ctx, args, rs[1], rs[2], rs[3])
      [] name = "check_host_interface_availability" ->
           handle_check_host_interface_availability(ctx, args, rs[1])

\* --------------------------------------------------------------- server.py

\* ToolResult(content=[TextContent(text=...)], is_error=...)
ToolResult(ctx, text, is_error) == [ctx |-> ctx, text |-> text, is_error |-> is_error]

\* handle_tool_call after the handler ran
tool_result(o) ==
    IF o.raised /\ o.exc.type = "ZabbixAPIError"
    THEN ToolResult(o.ctx, <<"Zabbix API error: ">> \o o.exc.msg, TRUE)
    ELSE IF o.raised
    THEN ToolResult(o.ctx, <<"Error: ">> \o o.exc.msg, TRUE)
    ELSE ToolResult(o.ctx, o.val.v, FALSE)

\* ZabbixMCPServer.handle_tool_call
handle_tool_call(client_set, ctx, name, args, rs) ==
    IF ~client_set
    THEN ToolResult(ctx, <<"Error: Zabbix client not initialized">>, TRUE)
    ELSE IF name \notin TOOL_HANDLERS
    THEN ToolResult(ctx, <<"Unknown tool: ", name>>, TRUE)
    ELSE tool_result(handler(name, ctx, args, rs))

\* ----------------------------------------------------------------- state

VARIABLES
    token,          \* ZabbixClient.token
    request_id,     \* ZabbixClient._request_id
    server,         \* the server: "constructed" (client is None), "running"
                    \* (initialize() returned) or "aborted" (it raised)
    hosts,          \* the hosts of the remote and their linked templates
    ids,            \* the ids of all envelopes sent so far, in send order
    base,           \* per host: its templates after the last change that was
                    \* not made by link_template
    linked,         \* per host: the template ids link_template linked since
    last,           \* the most recent operation: its arguments, the envelopes
                    \* it sent and what it returned
    inflight        \* per tool invocation handed to the event loop: how far
                    \* its coroutine has run

vars == <<token, request_id, server, hosts, ids, base, linked, last, inflight>>

\* the client and the remote as an operation finds them; calls and replies
\* collect the envelopes the operation sends and the answers it gets
Ctx == [token |-> token, rid |-> request_id, ids |-> ids, calls |-> <<>>,
        replies |-> <<>>, hosts |-> hosts]

\* the client and the remote after an operation that is not a link_template
Commit(ctx) ==
    /\ token' = ctx.token
    /\ request_id' = ctx.rid
    /\ ids' = ctx.ids
    /\ hosts' = ctx.hosts
    /\ base' = [h \in HostIds |->
                  IF ctx.hosts[h] = hosts[h] THEN base[h] ELSE ctx.hosts[h].templates]
    /\ linked' = [h \in HostIds |-> IF ctx.hosts[h] = hosts[h] THEN linked[h] ELSE {}]

\* the client and the remote after link_template(hostid, templateid)
CommitLink(ctx, hostid, templateid, ok) ==
    /\ token' = ctx.token
    /\ request_id' = ctx.rid
    /\ ids' = ctx.ids
    /\ hosts' = ctx.hosts
    /\ base' = base
    /\ linked' = [h \in HostIds |->
                    IF h = hostid /\ ok THEN linked[h] \cup {templateid} ELSE linked[h]]

Init ==
    /\ token = PyNone
    /\ request_id = 0
    /\ server = "constructed"
    /\ hosts = InitialHosts
    /\ ids = <<>>
    /\ base = [h \in HostIds |-> InitialHosts[h].templates]
    /\ linked = [h \in HostIds |-> {}]
    /\ last = [op |-> "init"]
    /\ inflight = [p \in {"first", "second"} |-> "idle"]

\* what an operation of the client leaves behind
Done(op, o) ==
    /\ Commit(o.ctx)
    /\ last' = [op |-> op, calls |-> o.ctx.calls, replies |-> o.ctx.replies,
                raised |-> o.raised, exc |-> o.exc, val |-> o.val,
                token_before |-> token]

\* client.authenticate()
Authenticate ==
    /\ request_id < MaxRequests
    /\ \E resp \in Responses : Done("authenticate", authenticate(Ctx, resp))
    /\ UNCHANGED <<server, inflight>>

Methods == {"host.get", "host.update", "problem.get"}
CallParams(method) ==
    CASE method = "host.get" -> {PyNone, PyDict([hostids |-> "10084"])}
      [] method = "host.update" ->
           {PyDict([hostid |-> "10084", templates |-> <<[templateid |-> "10002"]>>])}
      [] OTHER -> {PyNone}

DoneCall(method, params, o) ==
    /\ Commit(o.ctx)
    /\ last' = [op |-> "call", method |-> method, params |-> params,
                calls |-> o.ctx.calls, replies |-> o.ctx.replies,
                raised |-> o.raised, exc |-> o.exc, val |-> o.val,
                token_before |-> token]

\* client.call(method, params)
Call ==
    /\ request_id < MaxRequests
    /\ \E method \in Methods :
         \E params \in CallParams(method), resp \in Responses :
           DoneCall(method, params, call(Ctx, method, params, resp))
    /\ UNCHANGED <<server, inflight>>

DoneLink(hostid, templateid, o) ==
    /\ CommitLink(o.ctx, hostid, templateid, o.val.v)
    /\ last' = [op |-> "link_template", hostid |-> hostid,
                templateid |-> templateid, calls |-> o.ctx.calls,
                replies |-> o.ctx.replies, raised |-> o.raised, val |-> o.val,
                before |-> hosts[hostid].templates,
                again |-> /\ last.op = "link_template"
                          /\ last.hostid = hostid
                          /\ last.templateid = templateid
                          /\ last.val.v]

\* client.link_template(hostid, templateid)
LinkTemplate ==
    /\ request_id < MaxRequests
    /\ \E hostid \in HostIds, templateid \in TemplateIds, r1 \in Plain, r2 \in Plain :
         DoneLink(hostid, templateid, link_template(Ctx, hostid, templateid, r1, r2))
    /\ UNCHANGED <<server, inflight>>

Next ==
    \/ Authenticate
    \/ Call
    \/ LinkTemplate

\* the client used on its own: authenticate, call and link_template
Spec == Init /\ [][Next]_vars

\* what initialize() leaves behind
DoneInitialize(o) ==
    /\ Commit(o.ctx)
    /\ server' = IF o.raised THEN "aborted" ELSE "running"
    /\ last' = [op |-> "initialize", calls |-> o.ctx.calls, replies |-> o.ctx.replies,
                raised |-> o.raised, exc |-> o.exc, val |-> o.val]

LookupOps == {"get_host_by_name", "get_template_by_name"}
LookupNames(op) ==
    IF op = "get_host_by_name" THEN {"web01", "ghost"}
    ELSE {"Nginx by HTTP", "No such template"}

\* client.get_host_by_name(name) / client.get_template_by_name(name)
lookup(op, ctx, name, resp) ==
    IF op = "get_host_by_name" THEN get_host_by_name(ctx, name, resp)
    ELSE get_template_by_name(ctx, name, resp)

DoneLookup(op, name, o) ==
    /\ Commit(o.ctx)
    /\ last' = [op |-> op, name |-> name, calls |-> o.ctx.calls,
                replies |-> o.ctx.replies, raised |-> o.raised, exc |-> o.exc,
                val |-> o.val, token_before |-> token]

\* a lookup by name
GetByName ==
    /\ request_id < MaxRequests
    /\ \E op \in LookupOps :
         \E name \in LookupNames(op), resp \in Plain :
           DoneLookup(op, name, lookup(op, Ctx, name, resp))
    /\ UNCHANGED <<server, inflight>>

Accessors ==
    {"get_hosts", "get_triggers", "get_events", "get_problems", "get_items",
     "get_history", "get_dashboards", "get_groups", "get_templates"}

\* the values the caller gives to the named parameters of an accessor
AccessorArgs(name) ==
    CASE name \in {"get_events", "get_history"} ->
           {[itemid |-> "501", hostid |-> PyNone, limit |-> n] : n \in {100, 5}}
      [] name = "get_items" ->
           {[itemid |-> "501", hostid |-> h, limit |-> 100] :
              h \in {PyNone, PyStr(""), PyStr("10084")}}
      [] OTHER -> {[itemid |-> "501", hostid |-> PyNone, limit |-> 100]}

\* the further keyword arguments of the caller
AccessorKwargs(name) ==
    {EmptyDict, [output |-> "shorten"], [search |-> "web"]}
    \cup (IF name \in {"get_hosts", "get_items"}
          THEN {[hostids |-> "10085"], [output |-> "shorten", hostids |-> "10084"]}
          ELSE {})
    \cup (IF name = "get_events" THEN {[sortfield |-> "eventid"]} ELSE {})

\* the params an accessor starts from, before params.update(kwargs)
accessor_params(name, a) ==
    CASE name = "get_hosts" -> get_hosts_params
      [] name = "get_triggers" -> get_triggers_params
      [] name = "get_events" -> get_events_params(a.limit)
      [] name = "get_problems" -> get_problems_params
      [] name = "get_items" -> get_items_params(a.hostid)
      [] name = "get_history" -> get_history_params(a.itemid, a.limit)
      [] name = "get_dashboards" -> get_dashboards_params
      [] name = "get_groups" -> get_groups_params
      [] name = "get_templates" -> get_templates_params

\* client.<name>(..., **kwargs)
accessor(name, ctx, a, kwargs, resp) ==
    CASE name = "get_hosts" -> get_hosts(ctx, kwargs, resp)
      [] name = "get_triggers" -> get_triggers(ctx, kwargs, resp)
      [] name = "get_events" -> get_events(ctx, a.limit, kwargs, resp)
      [] name = "get_problems" -> get_problems(ctx, kwargs, resp)
      [] name = "get_items" -> get_items(ctx, a.hostid, kwargs, resp)
      [] name = "get_history" -> get_history(ctx, a.itemid, a.limit, kwargs, resp)
      [] name = "get_dashboards" -> get_dashboards(ctx, kwargs, resp)
      [] name = "get_groups" -> get_groups(ctx, kwargs, resp)
      [] name = "get_templates" -> get_templates(ctx, kwargs, resp)

DoneAccessor(name, a, kwargs, o) ==
    /\ Commit(o.ctx)
    /\ last' = [op |-> "accessor", name |-> name, args |-> a, kwargs |-> kwargs,
                calls |-> o.ctx.calls, replies |-> o.ctx.replies,
                raised |-> o.raised, exc |-> o.exc, val |-> o.val,
                token_before |-> token]

\* a domain accessor called with named and keyword arguments
Accessor ==
    /\ request_id < MaxRequests
    /\ \E name \in Accessors :
         \E a \in AccessorArgs(name), kwargs \in AccessorKwargs(name), resp \in Plain :
           DoneAccessor(name, a, kwargs, accessor(name, Ctx, a, kwargs, resp))
    /\ UNCHANGED <<server, inflight>>

ReadNext ==
    \/ Authenticate
    \/ GetByName
    \/ Accessor

\* the client used for reading: authenticate, lookups by name and accessors
ReadSpec == Init /\ [][ReadNext]_vars

\* ZabbixMCPServer.run(): initialize() sets the client and authenticates;
\* when that raises, run() raises too and the server never serves
Initialize ==
    /\ server = "constructed"
    /\ \E resp \in Responses : DoneInitialize(authenticate(Ctx, resp))
    /\ UNCHANGED inflight

Chars_Admin == <<"A", "d", "m", "i", "n">>
Chars_admin123 == <<"a", "d", "m", "i", "n", "1", "2", "3">>
Chars_bob == <<"b", "o", "b">>
Chars_xBOB == <<"x", "B", "O", "B">>
Chars_S3cret == <<"S", "3", "c", "r", "e", "t">>

\* the arguments the tools are invoked with
ToolArgs(name) ==
    CASE name = "create_host" ->
           {[hostname |-> PyStr("n1"), display_name |-> PyStr("Node 1"),
             ip_address |-> PyStr("10.0.0.5")],
            [hostname |-> PyStr("n1"), display_name |-> PyStr("Node 1"),
             ip_address |-> PyStr("10.0.0.5"), template_id |-> PyStr("10002")],
            [hostname |-> PyStr("n1"), display_name |-> PyStr("Node 1"),
             ip_address |-> PyStr("10.0.0.5"), template_id |-> PyStr("")],
            [hostname |-> PyStr("n1"), display_name |-> PyStr("Node 1")]}
      [] name = "link_template" ->
           {[hostname |-> PyStr(h), template_name |-> PyStr(t)] :
              h \in {"web01", "ghost"}, t \in {"Nginx by HTTP", "No such template"}}
      [] name = "create_user" ->
           {[username |-> PyChars(Chars_Admin), password |-> PyChars(Chars_admin123)],
            [username |-> PyChars(Chars_bob), password |-> PyChars(Chars_xBOB),
             role |-> PyChars(<<"3">>)],
            [username |-> PyChars(Chars_bob), password |-> PyChars(Chars_S3cret),
             role |-> PyChars(<<"3">>)],
            [username |-> PyChars(Chars_bob), password |-> PyChars(Chars_S3cret)],
            [username |-> PyChars(Chars_bob), password |-> PyChars(Chars_S3cret),
             role |-> PyChars(<<"o", "p", "s">>)],
            [username |-> PyChars(Chars_bob), password |-> PyChars(Chars_S3cret),
             role |-> PyChars(<<"3">>), surname |-> PyChars(<<"R", "e", "t">>)],
            [password |-> PyChars(Chars_S3cret)]}
      [] name = "update_user" ->
           {[userid |-> PyStr(u), password |-> PyChars(Chars_S3cret)] : u \in {"1", "2"}}
           \cup {[userid |-> PyStr("1"), password |-> PyChars(Chars_S3cret),
                  current_password |-> PyChars(<<>>)],
                 [userid |-> PyStr("1"), password |-> PyChars(Chars_S3cret),
                  current_password |-> PyChars(<<"o", "l", "d">>)],
                 [userid |-> PyStr("1"), roleid |-> PyStr("3")],
                 [userid |-> PyStr("1")]}
      [] name = "check_host_interface_availability" ->
           {[hostid |-> PyStr(h)] : h \in {"10084", "10085", "99999"}}
      [] OTHER -> {EmptyDict}

\* the answers the remote may give to the requests of one tool invocation
ToolResponses(name) ==
    LET one == CHOOSE r \in Plain : r.kind = "ok"
    IN CASE name = "create_host" -> Shaped \X Plain \X Plain \X {one}
         [] name = "link_template" -> Plain \X Plain \X Plain \X Plain
         [] name \in {"create_user", "update_user"} -> Plain \X Plain \X {one} \X {one}
         [] OTHER -> Plain \X {one} \X {one} \X {one}

ToolNames == TOOL_HANDLERS \cup {"no_such_tool"}

\* what the UserManagement method behind a tool returned
inner_result(name, ctx, args, rs) ==
    CASE name = "create_user" -> um_create_user(ctx, args, rs[1], rs[2]).val
      [] name = "update_user" -> um_update_user(ctx, args, rs[1], rs[2]).val
      [] name = "check_host_interface_availability" ->
           check_host_interface_availability(ctx, Get(args, "hostid", PyNone), rs[1]).val
      [] OTHER -> PyNone

\* what a tool invocation leaves behind
DoneTool(name, args, inner, o) ==
    /\ Commit(o.ctx)
    /\ last' = [op |-> "tool", name |-> name, args |-> args, calls |-> o.ctx.calls,
                replies |-> o.ctx.replies, text |-> o.text, is_error |-> o.is_error,
                inner |-> inner]

\* server.handle_tool_call(name, arguments)
ToolCall ==
    /\ server # "aborted"
    /\ request_id < MaxToolRequests
    /\ \E name \in ToolNames :
         \E args \in ToolArgs(name), rs \in ToolResponses(name) :
           DoneTool(name, args,
                    IF server = "running" THEN inner_result(name, Ctx, args, rs) ELSE PyNone,
                    handle_tool_call(server = "running", Ctx, name, args, rs))
    /\ UNCHANGED <<server, inflight>>

ToolNext ==
    \/ Initialize
    \/ ToolCall

\* the server: initialize, then tool invocations
ToolSpec == Init /\ [][ToolNext]_vars

\* a coroutine that is overtaken by one that reads the counter between its
\* increment and its own read
AwaitPoints_AfterIncrement == {"incremented"}

\* The places of a get_hosts invocation at which its coroutine hands the
\* event loop to another one. handle_tool_call is a coroutine without an
\* await, and the handler and the client under it are plain functions, so
\* there is none: an invocation that has started runs to its return.
AwaitPoints == {}

\* the event loop is handed a get_hosts invocation while others may be
\* pending or running
Arrive(p) ==
    /\ server = "running"
    /\ inflight[p] = "idle"
    /\ inflight' = [inflight EXCEPT ![p] = "pending"]
    /\ UNCHANGED <<token, request_id, server, hosts, ids, base, linked, last>>

\* the invocation runs up to "self._request_id += 1" of the call() under
\* get_hosts, or ends at the token check
BeginCall(p) ==
    /\ inflight[p] = "pending"
    /\ request_id < MaxRequests
    /\ IF Truthy(token)
       THEN /\ request_id' = get_request_id(request_id).rid
            /\ inflight' = [inflight EXCEPT ![p] = "incremented"]
            /\ UNCHANGED <<token, hosts, ids, base, linked, last>>
       ELSE /\ Done("get_hosts", Raise(Ctx, "ZabbixAPIError", NotAuthenticated))
            /\ inflight' = [inflight EXCEPT ![p] = "idle"]
    /\ UNCHANGED server

\* the invocation goes on from "return self._request_id": it reads the
\* counter and the token, sends the envelope and returns
SendCall(p) ==
    /\ inflight[p] = "incremented"
    /\ \E resp \in Responses :
         Done("get_hosts",
              call_with(Ctx, "host.get", PyDict(get_hosts_params),
                        [rid |-> request_id, id |-> request_id], resp))
    /\ inflight' = [inflight EXCEPT ![p] = "idle"]
    /\ UNCHANGED server

\* the event loop runs one coroutine at a time: an invocation takes a step
\* only while every other one is idle, pending or at an await
ConcNext ==
    \/ Initialize
    \/ \E p \in DOMAIN inflight : Arrive(p)
    \/ \E p \in DOMAIN inflight :
         /\ \A q \in DOMAIN inflight \ {p} :
              inflight[q] \in {"idle", "pending"} \cup AwaitPoints
         /\ (BeginCall(p) \/ SendCall(p))

\* the server with tool invocations that arrive while others are under way
ConcSpec == Init /\ [][ConcNext]_vars

\* ---------------------------------------------------------------- claims

\* an answer that carries a result and no error
Answered(reply) == ~reply.transport /\ ~reply.data.has_error /\ reply.data.has_result

Methods_of(calls) == [i \in DOMAIN calls |-> calls[i].method]

\* C1: call() on a client whose token was never set raises the
\* not-authenticated error, whatever the method and the params, and sends
\* no envelope.
C1_CallBeforeAuthenticate ==
    (last.op = "call" /\ last.token_before = PyNone)
        => /\ last.raised
           /\ last.exc = [type |-> "ZabbixAPIError", msg |-> NotAuthenticated]
           /\ last.calls = <<>>

C1_Witness ==
    /\ last.op = "call"
    /\ last.token_before = PyNone
    /\ last.method = "host.update"
    /\ last.params.t = "dict"
    /\ last.raised

\* C2: the ids of the envelopes sent by authenticate() and call(), failed
\* or not, are strictly increasing in send order (so pairwise distinct).
C2_RequestIdsIncrease ==
    \A i \in DOMAIN ids : \A j \in DOMAIN ids : i < j => ids[i] < ids[j]

C2_Witness ==
    /\ Len(ids) >= 4
    /\ last.op = "call"
    /\ last.raised
    /\ \E i \in DOMAIN ids : ids[i] = 1

\* the host id the remote returned for host.create
ReturnedHostId(result) ==
    IF result.t = "list" THEN result.v[1] ELSE result.v.hostids[1]

CarriesHostId(result) ==
    \/ result.t = "list" /\ Len(result.v) > 0
    \/ result.t = "dict" /\ "hostids" \in DOMAIN result.v

RequiredOnly == {"hostname", "display_name", "ip_address"}

\* C3: create_host with hostname, display_name and ip_address only, on an
\* authenticated client and a remote that answers every request with a
\* result, sends exactly host.create, hostinterface.create, host.update in
\* this order, the last two with the host id host.create returned.
C3_CreateHostThreeCalls ==
    ( /\ last.op = "tool"
      /\ last.name = "create_host"
      /\ server = "running"
      /\ Truthy(token)
      /\ DOMAIN last.args = RequiredOnly
      /\ \A i \in DOMAIN last.replies : Answered(last.replies[i])
      /\ Len(last.replies) >= 1 => CarriesHostId(last.replies[1].data.result) )
        => /\ Methods_of(last.calls) = <<"host.create", "hostinterface.create", "host.update">>
           /\ last.calls[2].params.hostid = ReturnedHostId(last.replies[1].data.result)
           /\ last.calls[3].params.hostid = ReturnedHostId(last.replies[1].data.result)

C3_Witness ==
    /\ last.op = "tool"
    /\ last.name = "create_host"
    /\ DOMAIN last.args = RequiredOnly
    /\ Len(last.calls) = 3
    /\ \A i \in DOMAIN last.replies : Answered(last.replies[i])
    /\ last.calls[2].params.hostid = "10085"
    /\ hosts["10085"].exists
    /\ hosts["10085"].templates = <<"10001">>

\* C4: link_template(H, T) called again right after a link_template(H, T)
\* that returned True sends no host.update and leaves the templates of H
\* as they were; when its host.get is answered it returns True.
C4_LinkTemplateIdempotent ==
    (last.op = "link_template" /\ last.again)
        => /\ \A i \in DOMAIN last.calls : last.calls[i].method # "host.update"
           /\ hosts[last.hostid].templates = last.before
           /\ (Len(last.replies) >= 1 /\ Answered(last.replies[1])) => last.val.v

C4_Witness ==
    /\ last.op = "link_template"
    /\ last.again
    /\ last.val.v
    /\ Len(last.calls) = 1
    /\ last.templateid \in Range(hosts[last.hostid].templates)
    /\ Len(last.before) = 2

Entries(templates) == [i \in DOMAIN templates |-> [templateid |-> templates[i]]]

IsPrefix(s, t) == Len(s) <= Len(t) /\ SubSeq(t, 1, Len(s)) = s

\* C5: when link_template(H, T) finds T not linked, its host.update carries
\* the templates linked to H followed by T; after any run of link_template
\* calls no template linked before is gone and the templates of H are the
\* ones it had plus the ids linked.
C5_LinkTemplateAppends ==
    /\ (last.op = "link_template" /\ Len(last.replies) >= 1
        /\ Answered(last.replies[1]) /\ Truthy(last.replies[1].data.result)
        /\ last.templateid \notin Range(last.before))
         => /\ Methods_of(last.calls) = <<"host.get", "host.update">>
            /\ last.calls[2].params.hostid = last.hostid
            /\ last.calls[2].params.templates
                 = Entries(last.before) \o <<[templateid |-> last.templateid]>>
    /\ \A h \in HostIds :
         /\ IsPrefix(base[h], hosts[h].templates)
         /\ Range(hosts[h].templates) = Range(base[h]) \cup linked[h]

C5_Witness ==
    /\ last.op = "link_template"
    /\ last.val.v
    /\ Len(last.calls) = 2
    /\ Len(last.before) = 2
    /\ Cardinality(linked[last.hostid]) = 2
    /\ Len(hosts[last.hostid].templates) = 3

\* the tool invocation reached the UserManagement method on a client that
\* holds a token
UserToolRan(name) ==
    /\ last.op = "tool"
    /\ last.name = name
    /\ server = "running"
    /\ Truthy(token)
    /\ last.inner.t = "dict"

Supplied(args, key) == key \in DOMAIN args /\ Truthy(args[key])

CasePairs ==
    {<<"A", "a">>, <<"B", "b">>, <<"D", "d">>, <<"I", "i">>,
     <<"M", "m">>, <<"N", "n">>, <<"O", "o">>, <<"S", "s">>}
SameLetter(a, b) == a = b \/ <<a, b>> \in CasePairs \/ <<b, a>> \in CasePairs

\* x occurs in password when the case of the letters is ignored
ContainsIgnoringCase(x, password) ==
    \E k \in 0..(Len(password) - Len(x)) :
        \A i \in 1..Len(x) : SameLetter(x[i], password[k + i])

\* C7: create_user fails validation whenever the password contains the
\* username with case ignored, and then sends no request at all.
C7_CreateUserPasswordContainsUsername ==
    ( /\ UserToolRan("create_user")
      /\ ContainsIgnoringCase(last.args.username.v, last.args.password.v) )
        => /\ ~last.inner.v.success
           /\ last.inner.v.message = <<"Password validation failed">>
           /\ Contains(last.inner.v.validation_errors, "Password cannot contain username")
           /\ last.calls = <<>>

C7_Witness ==
    /\ UserToolRan("create_user")
    /\ last.args.username.v = Chars_Admin
    /\ last.args.password.v = Chars_admin123
    /\ ~last.inner.v.success
    /\ last.calls = <<>>

UserCreateCalls == {i \in DOMAIN last.calls : last.calls[i].method = "user.create"}

\* C8: when the password checks pass and the role resolves, create_user
\* sends exactly one user.create and, when the remote returns a user id,
\* reports success with that id.
C8_CreateUserIssuesCreate ==
    ( /\ UserToolRan("create_user")
      /\ ~ContainsIgnoringCase(last.args.username.v, last.args.password.v)
      /\ Supplied(last.args, "surname")
           => ~ContainsIgnoringCase(last.args.surname.v, last.args.password.v)
      /\ "role" \in DOMAIN last.args
      /\ isdigit(last.args.role.v) )
        => /\ Cardinality(UserCreateCalls) = 1
           /\ \A i \in UserCreateCalls :
                (Answered(last.replies[i]) /\ last.replies[i].data.result.t = "dict"
                 /\ "userids" \in DOMAIN last.replies[i].data.result.v)
                  => /\ last.inner.v.success
                     /\ last.inner.v.userid = PyStr(last.replies[i].data.result.v.userids[1])

\* a request of the invocation met a transport failure or an error object
SomeRequestFailed ==
    \E i \in DOMAIN last.replies :
        last.replies[i].transport \/ last.replies[i].data.has_error

\* C9: a tool invocation in which a request failed, or whose operation
\* reported no success, is returned with is_error true.
C9_FailuresAreFlagged ==
    (last.op = "tool" /\ server = "running")
        => /\ SomeRequestFailed => last.is_error
           /\ (last.inner.t = "dict" /\ ~last.inner.v.success) => last.is_error

\* the step of create_host that did not go through, when it is step 2 or 3
FailedStep ==
    IF /\ last.op = "tool"
       /\ last.name = "create_host"
       /\ Len(last.replies) >= 2
       /\ LET r == last.replies[Len(last.replies)]
          IN ~Answered(r) \/ ~Truthy(r.data.result)
    THEN Len(last.replies)
    ELSE 0

StepText(step) ==
    IF step = 2 THEN ") but interface creation failed" ELSE ") but template linking failed"

\* C10: when host.create went through and step 2 or 3 of create_host
\* fails (no result, error object or transport failure), the text names
\* the failed step and carries the id of the host.
C10_CreateHostReportsFailedStep ==
    FailedStep >= 2
        => /\ Contains(last.text, StepText(FailedStep))
           /\ Contains(last.text, ReturnedHostId(last.replies[1].data.result))

CreateHostMethods == {"host.create", "hostinterface.create", "host.update"}

\* the remote holds a host of this name
HostNamed(name) == \E h \in HostIds : hosts[h].exists /\ hosts[h].host = name

\* C11: once host.create went through, create_host sends nothing but
\* hostinterface.create and host.update, so no call that undoes it, and the
\* host is still on the remote when the invocation ends, whether the later
\* steps went through or not.
C11_CreateHostNoRollback ==
    ( /\ last.op = "tool"
      /\ last.name = "create_host"
      /\ Len(last.replies) >= 1
      /\ Answered(last.replies[1]) )
        => /\ last.calls[1].method = "host.create"
           /\ \A i \in DOMAIN last.calls : last.calls[i].method \in CreateHostMethods
           /\ HostNamed(last.args.hostname.v)

C11_Witness ==
    /\ FailedStep = 2
    /\ last.replies[2].transport
    /\ Answered(last.replies[1])
    /\ HostNamed("n1")
    /\ hosts["10085"].host = "n1"

\* C12: link_template(hostid, templateid) whose host.get by id returns no
\* record raises an error to its caller and sends no host.update.
C12_LinkTemplateUnknownHostRaises ==
    ( /\ last.op = "link_template"
      /\ Len(last.replies) >= 1
      /\ Answered(last.replies[1])
      /\ ~Truthy(last.replies[1].data.result) )
        => /\ last.raised
           /\ \A i \in DOMAIN last.calls : last.calls[i].method # "host.update"

\* C13: authenticate() whose login meets a transport failure, an error
\* field or a body without result raises the error of the client, has sent
\* exactly one user.login and leaves the stored token as it was.
C13_AuthenticateFailure ==
    last.op = "authenticate"
        => /\ Len(last.calls) = 1
           /\ last.calls[1].method = "user.login"
           /\ ~Answered(last.replies[1])
                => /\ last.raised
                   /\ last.exc.type = "ZabbixAPIError"
                   /\ token = last.token_before

C13_Witness ==
    /\ last.op = "authenticate"
    /\ last.raised
    /\ ~last.replies[1].transport
    /\ ~last.replies[1].data.has_error
    /\ ~last.replies[1].data.has_result
    /\ last.token_before = PyStr("tokA")
    /\ token = PyStr("tokA")

\* C14: when the login is answered with an error object that has a data
\* string, the message of the error authenticate() raises contains that
\* string.
C14_AuthenticateErrorCarriesData ==
    ( /\ last.op = "authenticate"
      /\ last.replies[1].data.has_error
      /\ last.replies[1].data.error.isdict
      /\ last.replies[1].data.error.hasdata )
        => /\ last.raised
           /\ Contains(last.exc.msg, last.replies[1].data.error.data)

C14_Witness ==
    /\ last.op = "authenticate"
    /\ last.raised
    /\ last.replies[1].data.error.code = "-32500"
    /\ Contains(last.exc.msg, "Login name or password is incorrect.")

\* C15: the stored token changes only in a successful authenticate(), which
\* stores the token that login returned, also when a token was already
\* held; every envelope of call() and link_template() carries the token
\* stored when it is sent.
C15_ReauthenticateReplacesToken ==
    [][ /\ token' # token => (last'.op = "authenticate" /\ ~last'.raised)
        /\ (last'.op = "authenticate" /\ ~last'.raised)
             => token' = last'.replies[1].data.result
        /\ last'.op \in {"call", "link_template"}
             => \A i \in DOMAIN last'.calls : last'.calls[i].auth = token.v ]_vars

C15_Witness ==
    /\ last.op = "authenticate"
    /\ ~last.raised
    /\ last.token_before = PyStr("tokA")
    /\ token = PyStr("tokB")

\* C16: when the answer to call() has an error object, the error call()
\* raises carries the code, the message and the data of that object; a
\* transport failure raises an error told apart from it by its text.
C16_CallRemoteErrorCarriesFields ==
    (last.op = "call" /\ Len(last.replies) = 1)
        => /\ ( /\ last.replies[1].data.has_error
                /\ last.replies[1].data.error.isdict )
                => /\ last.raised
                   /\ last.exc.msg[1] = "API error: "
                   /\ Contains(last.exc.msg, last.replies[1].data.error.code)
                   /\ Contains(last.exc.msg, last.replies[1].data.error.message)
                   /\ last.replies[1].data.error.hasdata
                        => Contains(last.exc.msg, last.replies[1].data.error.data)
           /\ last.replies[1].transport
                => /\ last.raised
                   /\ last.exc.msg[1] = "Connection error: "

\* C17: call() on a client that holds a token sends one envelope whose
\* params are the params given, or an empty mapping when they are omitted;
\* when the answer has no error field it returns the result field as it
\* is, or an empty mapping when the body has no result.
C17_CallReturnsResult ==
    (last.op = "call" /\ Truthy(last.token_before))
        => /\ Len(last.calls) = 1
           /\ last.params.t = "none" => last.calls[1].params = EmptyDict
           /\ last.params.t = "dict" => last.calls[1].params = last.params.v
           /\ (~last.replies[1].transport /\ ~last.replies[1].data.has_error)
                => /\ ~last.raised
                   /\ last.replies[1].data.has_result
                        => last.val = last.replies[1].data.result
                   /\ ~last.replies[1].data.has_result
                        => last.val = PyDict(EmptyDict)

C17_Witness ==
    /\ last.op = "call"
    /\ last.params.t = "none"
    /\ Len(last.calls) = 1
    /\ last.calls[1].params = EmptyDict
    /\ ~last.replies[1].transport
    /\ ~last.replies[1].data.has_error
    /\ ~last.replies[1].data.has_result
    /\ last.val = PyDict(EmptyDict)

LookupMethod(op) == IF op = "get_host_by_name" THEN "host.get" ELSE "template.get"

\* C18: get_host_by_name(name) and get_template_by_name(name) on a client
\* that holds a token send one get request filtered by that name; when it
\* is answered with a list they return its first record, or None, without
\* raising, when the list is empty.
C18_LookupByName ==
    (last.op \in LookupOps /\ Truthy(last.token_before))
        => /\ Len(last.calls) = 1
           /\ last.calls[1].method = LookupMethod(last.op)
           /\ last.calls[1].params.filter = [host |-> last.name]
           /\ (Answered(last.replies[1]) /\ last.replies[1].data.result.t = "list")
                => /\ ~last.raised
                   /\ Len(last.replies[1].data.result.v) > 0
                        => last.val = PyDict(last.replies[1].data.result.v[1])
                   /\ Len(last.replies[1].data.result.v) = 0
                        => last.val = PyNone

C18_Witness ==
    /\ last.op = "get_host_by_name"
    /\ last.name = "ghost"
    /\ Len(last.replies) = 1
    /\ Answered(last.replies[1])
    /\ last.replies[1].data.result = PyList(<<>>)
    /\ ~last.raised
    /\ last.val = PyNone

AccessorMethod(name) ==
    CASE name = "get_hosts" -> "host.get"
      [] name = "get_triggers" -> "trigger.get"
      [] name = "get_events" -> "event.get"
      [] name = "get_problems" -> "problem.get"
      [] name = "get_items" -> "item.get"
      [] name = "get_history" -> "history.get"
      [] name = "get_dashboards" -> "dashboard.get"
      [] name = "get_groups" -> "hostgroup.get"
      [] name = "get_templates" -> "template.get"

\* the params of the envelope the accessor sent
SentParams == last.calls[1].params

\* C19: an accessor on a client that holds a token sends one request to its
\* own method; the params carry exactly the keys of its defaults and of the
\* caller's keyword arguments, with the caller's value for every key the
\* caller gave and the default for every other key; a limit given by the
\* caller replaces the default limit.
C19_AccessorOverlaysKwargs ==
    (last.op = "accessor" /\ Truthy(last.token_before))
        => /\ Len(last.calls) = 1
           /\ last.calls[1].method = AccessorMethod(last.name)
           /\ DOMAIN SentParams
                = DOMAIN accessor_params(last.name, last.args) \cup DOMAIN last.kwargs
           /\ \A k \in DOMAIN last.kwargs : SentParams[k] = last.kwargs[k]
           /\ \A k \in DOMAIN accessor_params(last.name, last.args) \ DOMAIN last.kwargs :
                SentParams[k] = accessor_params(last.name, last.args)[k]
           /\ last.name \in {"get_events", "get_history"}
                => SentParams.limit = last.args.limit

C19_Witness ==
    /\ last.op = "accessor"
    /\ last.name = "get_events"
    /\ last.args.limit = 5
    /\ last.kwargs = [sortfield |-> "eventid"]
    /\ Len(last.calls) = 1
    /\ SentParams = [output |-> "extend", limit |-> 5, sortfield |-> "eventid",
                     selectHosts |-> "extend"]

\* the role create_user is asked to resolve
RoleArgument == Get(last.args, "role", DefaultRole)

RoleGetCalls == {i \in DOMAIN last.calls : last.calls[i].method = "role.get"}

\* C20: once the password checks pass, create_user takes a purely numeric
\* role as the role id without a lookup; for any other role it sends one
\* role.get filtered by that name, and when the role does not resolve it
\* fails with a message naming the role and sends no user.create.
C20_CreateUserResolvesRole ==
    ( /\ UserToolRan("create_user")
      /\ ~ContainsIgnoringCase(last.args.username.v, last.args.password.v)
      /\ Supplied(last.args, "surname")
           => ~ContainsIgnoringCase(last.args.surname.v, last.args.password.v) )
        => /\ isdigit(RoleArgument.v) => RoleGetCalls = {}
           /\ ~isdigit(RoleArgument.v)
                => /\ Cardinality(RoleGetCalls) = 1
                   /\ \A i \in RoleGetCalls :
                        /\ last.calls[i].params.filter = [name |-> RoleArgument.v]
                        /\ ~(Answered(last.replies[i])
                             /\ Truthy(last.replies[i].data.result))
                             => /\ ~last.inner.v.success
                                /\ last.inner.v.message
                                     = <<"Role not found: ">> \o RoleArgument.v
                                /\ UserCreateCalls = {}

\* C21: update_user invoked with none of password, roleid, email, name and
\* surname supplied succeeds with an empty change list and sends no request
\* of any kind.
C21_UpdateUserNoChanges ==
    ( /\ UserToolRan("update_user")
      /\ \A k \in {"password", "roleid", "email", "name", "surname"} :
             ~Supplied(last.args, k) )
        => /\ last.inner.v.success
           /\ last.inner.v.changes_made = <<>>
           /\ last.calls = <<>>

\* the status the fixed mapping gives to an availability code
MappedStatus(code) ==
    CASE code = "0" -> "unknown"
      [] code = "1" -> "available"
      [] code = "2" -> "checking"
      [] code = "3" -> "unavailable"

\* C22: check_host_interface_availability(hostid) never raises; for a host
\* the remote holds it reports the status of the first-listed interface by
\* the mapping 0 unknown, 1 available, 2 checking, 3 unavailable (unknown
\* when the host has no interface), and for a host the remote does not
\* hold it returns status "unknown" with a not-found error.
C22_AvailabilityFollowsFirstInterface ==
    ( /\ last.op = "tool"
      /\ last.name = "check_host_interface_availability"
      /\ server = "running"
      /\ Truthy(token) )
        => /\ last.inner.t = "dict"
           /\ IF last.args.hostid.v \in HostIds /\ hosts[last.args.hostid.v].exists
              THEN last.inner.v.status =
                     IF hosts[last.args.hostid.v].interfaces = <<>> THEN "unknown"
                     ELSE MappedStatus(hosts[last.args.hostid.v].interfaces[1].available)
              ELSE /\ last.inner.v.status = "unknown"
                   /\ "error" \in DOMAIN last.inner.v
                   /\ last.inner.v.error = <<"Host not found">>

\* C24: every envelope the client sends has jsonrpc "2.0", a method, params
\* and an id; the user.login envelope of authenticate() has no auth field,
\* and every envelope of call() has an auth field equal to the stored token.
C24_EnvelopeShape ==
    last.op \in {"authenticate", "call", "link_template"}
        => \A i \in DOMAIN last.calls :
             /\ {"jsonrpc", "method", "params", "id"} \subseteq DOMAIN last.calls[i]
             /\ last.calls[i].jsonrpc = "2.0"
             /\ IF last.op = "authenticate"
                THEN /\ last.calls[i].method = "user.login"
                     /\ "auth" \notin DOMAIN last.calls[i]
                ELSE /\ "auth" \in DOMAIN last.calls[i]
                     /\ last.calls[i].auth = token.v

C24_Witness ==
    /\ last.op = "call"
    /\ Len(last.calls) = 1
    /\ last.calls[1].auth = "tokA"
    /\ Len(ids) >= 2
    /\ last.calls[1].id = ids[Len(ids)]

\* C25: after an authenticate() that returned True, whatever login answer
\* made it return True, the next call() on the client does not fail with
\* the not-authenticated error.
C25_CallAfterAuthenticateIsAuthenticated ==
    [][ ( /\ last.op = "authenticate"
          /\ ~last.raised
          /\ last.val = PyBool(TRUE)
          /\ last'.op = "call" )
            => ~(last'.raised /\ last'.exc.msg = NotAuthenticated) ]_vars

\* the step is a call() that was rejected as not authenticated
RejectedCall ==
    /\ last'.op = "call"
    /\ last'.raised
    /\ last'.exc.msg = NotAuthenticated

\* C26, as claimed: the token is changed only by a successful
\* authenticate() and the request-id counter only by call(): call() and the
\* operations built on it leave the token unchanged, authenticate() leaves
\* the counter unchanged, and a call() rejected as not authenticated
\* changes neither.
C26_CounterChangedOnlyByCall ==
    [][ /\ token' # token => (last'.op = "authenticate" /\ ~last'.raised)
        /\ last'.op \in {"call", "link_template"} => token' = token
        /\ last'.op = "authenticate" => request_id' = request_id
        /\ RejectedCall => (token' = token /\ request_id' = request_id) ]_vars

\* C26, amended: the token is changed only by a successful authenticate()
\* and the request-id counter only by sending an envelope, one step for
\* each envelope: call() and the operations built on it leave the token
\* unchanged whatever the outcome, authenticate() adds exactly one to the
\* counter for its login envelope, and a call() rejected as not
\* authenticated changes neither.
C26_CounterChangedBySending ==
    [][ /\ token' # token => (last'.op = "authenticate" /\ ~last'.raised)
        /\ last'.op \in {"call", "link_template"} => token' = token
        /\ request_id' = request_id + Len(last'.calls)
        /\ last'.op = "authenticate" => request_id' = request_id + 1
        /\ RejectedCall => (token' = token /\ request_id' = request_id) ]_vars

C26_Witness ==
    /\ last.op = "call"
    /\ last.raised
    /\ last.exc.msg = NotAuthenticated
    /\ last.calls = <<>>
    /\ token = PyStr("")
    /\ request_id = 1
    /\ ids = <<1>>

\* the i-th request of the last operation was answered with an empty list
MatchedNothing(i) ==
    /\ Len(last.replies) >= i
    /\ Answered(last.replies[i])
    /\ ~Truthy(last.replies[i].data.result)

\* C27: link_template_by_names(hostname, template_name) sends its requests
\* in the order host lookup by name, template lookup by name, host.get by
\* id, host.update, and stops at the first lookup that matches nothing: a
\* host name that matches no record raises a not-found error after the one
\* request, without the template lookup or a host.update, and a template
\* name that matches no record raises one after the two lookups, without a
\* host.update.
C27_LinkByNamesOrder ==
    ( /\ last.op = "tool"
      /\ last.name = "link_template"
      /\ server = "running"
      /\ Truthy(token) )
        => /\ IsPrefix(Methods_of(last.calls),
                       <<"host.get", "template.get", "host.get", "host.update">>)
           /\ Len(last.calls) >= 1
           /\ last.calls[1].params.filter.host = last.args.hostname.v
           /\ Len(last.calls) >= 2
                => last.calls[2].params.filter.host = last.args.template_name.v
           /\ Len(last.calls) >= 3
                => last.calls[3].params.hostids = last.replies[1].data.result.v[1].hostid
           /\ MatchedNothing(1)
                => /\ Len(last.calls) = 1
                   /\ last.text = <<"(cross) Error: ", "Host '", last.args.hostname.v,
                                    "' not found">>
           /\ MatchedNothing(2)
                => /\ Len(last.calls) = 2
                   /\ last.text = <<"(cross) Error: ", "Template '",
                                    last.args.template_name.v, "' not found">>

C27_Witness ==
    /\ last.op = "tool"
    /\ last.name = "link_template"
    /\ Methods_of(last.calls) = <<"host.get", "template.get", "host.get", "host.update">>
    /\ last.text[1] = "(check) Successfully linked template '"
    /\ "10002" \in Range(hosts["10084"].templates)

====
